---- MODULE Spec2Model ----
(***************************************************************************)
(* Model of espectroscopia_optica_funcs.py: the helium calibration of a    *)
(* home-built spectrometer.                                                *)
(*                                                                         *)
(* Conventions.                                                            *)
(*  - An intensity profile is a sequence of naturals; pixel i (0-based, as *)
(*    in the code) is element i+1 of the sequence: At(x, i).               *)
(*  - Wavelengths are kept in hundredths of a nanometre (588.87 nm is      *)
(*    58887), so that the arithmetic is exact.                             *)
(*  - A real number is a pair <<num, den>> with den >= 0.  den = 0 stands  *)
(*    for the non-finite values numpy produces on a division by zero:      *)
(*    <<1,0>> is inf, <<-1,0>> is -inf and <<0,0>> is NaN.                 *)
(*  - The program keeps no state between calls, so a behaviour is one call *)
(*    of one of its functions from the idle state.                         *)
(***************************************************************************)
EXTENDS Integers, Sequences, FiniteSets

VARIABLES He_file, file, op, offset, plot, cal, out, lin

vars == <<He_file, file, op, offset, plot, cal, out, lin>>

\* ------------------------------------------------------------ bounds
\* Width (in pixels) of the synthetic calibration images.
Width == 43
\* Largest number of non-zero pixel columns in a synthetic calibration image.
MaxSpikes == 3
\* Largest absolute pixel offset passed by a caller.
MaxOffset == 1
\* Largest absolute anchor position passed directly to get_linear_transformation.
MaxAnchor == 2

\* ------------------------------------------------- program constants
prominence == 10
distance == 20
\* The helium lines, in hundredths of a nanometre.
He_502_60 == 50260
He_588_87 == 58887
He_669_07 == 66907

\* ------------------------------------------------------- arithmetic
Sign(n) == IF n > 0 THEN 1 ELSE IF n < 0 THEN -1 ELSE 0

Max2(a, b) == IF a >= b THEN a ELSE b

Min2(a, b) == IF a <= b THEN a ELSE b

Abs(n) == IF n < 0 THEN -n ELSE n

NaN == <<0, 0>>

RECURSIVE GCD(_, _)
GCD(a, b) == IF b = 0 THEN a ELSE GCD(b, a % b)

\* A pair in canonical form: lowest terms with den > 0, or one of the three
\* non-finite values.  Two numbers are equal exactly when their forms are.
Norm(p) ==
    IF p[2] = 0 THEN <<Sign(p[1]), 0>>
    ELSE LET g == GCD(Abs(p[1]), Abs(p[2]))
         IN  <<(Sign(p[2]) * p[1]) \div g, Abs(p[2]) \div g>>

RatOf(n) == <<n, 1>>

IsFinite(p) == p[2] # 0

\* numpy's true division a / b of two numbers: inf, -inf or NaN when b = 0.
RatDiv(a, b) == Norm(<<a, b>>)

RatNeg(p) == <<-p[1], p[2]>>

RatMul(p, q) == Norm(<<p[1] * q[1], p[2] * q[2]>>)

RatAdd(p, q) ==
    IF p[2] = 0 /\ q[2] = 0 THEN (IF p[1] = q[1] THEN p ELSE NaN)
    ELSE IF p[2] = 0 THEN p
    ELSE IF q[2] = 0 THEN q
    ELSE LET g == GCD(p[2], q[2])
         IN  Norm(<<p[1] * (q[2] \div g) + q[1] * (p[2] \div g), (p[2] \div g) * q[2]>>)

RatSub(p, q) == RatAdd(p, RatNeg(q))

\* IEEE equality of two numbers in canonical form: NaN equals nothing.
RatEq(p, q) == p = q /\ p # NaN

RatLt(p, q) ==
    /\ IsFinite(p)
    /\ IsFinite(q)
    /\ LET g == GCD(p[2], q[2]) IN p[1] * (q[2] \div g) < q[1] * (p[2] \div g)

\* ---------------------------------------------------------- profiles
At(x, i) == x[i + 1]

\* The pixel columns a synthetic calibration image may light.
FreePos == {0, 1, 3, 21, 23, 41}

Vals == {10, 15, 20}

\* The calibration profiles: zero but for at most MaxSpikes lit columns.
Profiles ==
    { [i \in 1..Width |-> IF (i - 1) \in DOMAIN f THEN f[i - 1] ELSE 0] :
        f \in UNION { [S -> Vals] :
                        S \in { T \in SUBSET FreePos : Cardinality(T) <= MaxSpikes } } }

\* The profile of the end-to-end example: pixel 100 at 50 and pixel 300 at 80.
ExampleWidth == 302

ExampleProfile ==
    [i \in 1..ExampleWidth |-> IF i = 101 THEN 50 ELSE IF i = 301 THEN 80 ELSE 0]

\* The target images: one lit column, of the calibration's width or not.
TargetProfiles ==
    { [i \in 1..w |-> IF i = 2 THEN 15 ELSE 0] : w \in {Width - 1, Width} }

\* The images on disk, as the profiles get_column_intensity reads from them.
get_column_intensity(f) == f

\* ------------------------------------------------------ peak detector
\* scipy.signal.find_peaks as the program calls it (prominence and distance
\* given, nothing else): the local maxima, then the distance condition with
\* the peak heights as priority, then the prominence condition.

\* The look-ahead from a sample i: the first sample after i that differs
\* from x[i], or the last sample when none before it does.
PlateauEnd(x, i) ==
    LET i_max == Len(x) - 1
        stops == { j \in (i + 1)..i_max : j = i_max \/ At(x, j) # At(x, i) }
    IN  CHOOSE j \in stops : \A k \in stops : j <= k

\* The samples at which the scan finds a maximum: the previous sample is
\* smaller and the next unequal sample is smaller (a sample inside a plateau
\* has an equal previous sample, so only a plateau's left edge qualifies).
LeftEdges(x) ==
    { i \in 1..(Len(x) - 2) :
        /\ At(x, i - 1) < At(x, i)
        /\ At(x, PlateauEnd(x, i)) < At(x, i) }

\* A finite set of integers as the ascending sequence of its elements.
Ascending(S) ==
    [n \in 1..Cardinality(S) |->
        CHOOSE p \in S : Cardinality({ q \in S : q < p }) = n - 1]

\* The midpoints of the local maxima (plateaus included), ascending; the first
\* and the last sample are never one.
local_maxima_1d(x) ==
    Ascending({ (i + (PlateauEnd(x, i) - 1)) \div 2 : i \in LeftEdges(x) })

\* The orders numpy's argsort may return for a priority vector: ascending,
\* equal priorities in an order the sort used by the build decides.
Argsorts(priority) ==
    LET n == Len(priority)
    IN  { o \in [1..n -> 1..n] :
            /\ \A i, j \in 1..n : o[i] = o[j] => i = j
            /\ \A i \in 1..n : \A j \in 1..n :
                 i < j => priority[o[i]] <= priority[o[j]] }

\* The distance condition with its loop run from the lowest priority up.
RECURSIVE SelectFromLowest(_, _, _, _, _)
SelectFromLowest(peaks, order, dist, i, keep) ==
    IF i > Len(peaks) THEN keep
    ELSE LET j == order[i]
         IN  IF ~keep[j] THEN SelectFromLowest(peaks, order, dist, i + 1, keep)
             ELSE SelectFromLowest(peaks, order, dist, i + 1,
                    [k \in 1..Len(peaks) |->
                        keep[k] /\ (k = j \/ Abs(peaks[k] - peaks[j]) >= dist)])

select_by_peak_distance_lowest_first(peaks, order, dist) ==
    SelectFromLowest(peaks, order, dist, 1, [k \in 1..Len(peaks) |-> TRUE])

RECURSIVE SelectFrom(_, _, _, _, _)
SelectFrom(peaks, order, dist, i, keep) ==
    IF i = 0 THEN keep
    ELSE LET j == order[i]
         IN  IF ~keep[j] THEN SelectFrom(peaks, order, dist, i - 1, keep)
             ELSE SelectFrom(peaks, order, dist, i - 1,
                    [k \in 1..Len(peaks) |->
                        keep[k] /\ (k = j \/ Abs(peaks[k] - peaks[j]) >= dist)])

\* The keep flags of the distance condition: from the highest priority down,
\* a peak still kept drops every other peak closer than dist to it (peaks is
\* ascending, so the two scans of the code drop exactly those).
select_by_peak_distance(peaks, order, dist) ==
    SelectFrom(peaks, order, dist, Len(peaks), [k \in 1..Len(peaks) |-> TRUE])

\* The lowest sample between peak and the nearest higher sample to its left
\* (the signal's edge when there is none).
LeftMin(x, peak) ==
    LET higher == { i \in 0..(peak - 1) : At(x, i) > At(x, peak) }
        i_min == IF higher = {} THEN 0
                 ELSE (CHOOSE i \in higher : \A j \in higher : j <= i) + 1
    IN  CHOOSE v \in { At(x, i) : i \in i_min..peak } :
            \A i \in i_min..peak : v <= At(x, i)

\* The same to its right.
RightMin(x, peak) ==
    LET higher == { i \in (peak + 1)..(Len(x) - 1) : At(x, i) > At(x, peak) }
        i_max == IF higher = {} THEN Len(x) - 1
                 ELSE (CHOOSE i \in higher : \A j \in higher : i <= j) - 1
    IN  CHOOSE v \in { At(x, i) : i \in peak..i_max } :
            \A i \in peak..i_max : v <= At(x, i)

peak_prominence(x, peak) ==
    At(x, peak) - Max2(LeftMin(x, peak), RightMin(x, peak))

\* The heights of the local maxima: the priority of the distance condition.
Priority(x) ==
    LET cand == local_maxima_1d(x) IN [i \in 1..Len(cand) |-> At(x, cand[i])]

select_by_property(x, peaks, pmin) ==
    SelectSeq(peaks, LAMBDA p : pmin <= peak_prominence(x, p))

find_peaks(x, order) ==
    LET cand == local_maxima_1d(x)
        keep == select_by_peak_distance(cand, order, distance)
        kept == SelectSeq(cand, LAMBDA p : \E i \in 1..Len(cand) : cand[i] = p /\ keep[i])
    IN  select_by_property(x, kept, prominence)

\* ------------------------------------------------- calibration fitter
\* kind is "np" when the anchors are numpy numbers (as get_wavelength_from_He
\* passes them) and "py" when they are Python numbers: a Python division by
\* zero raises, numpy's returns inf or NaN with a warning.
\* The fit with the intercept taken at the wrong anchor.
get_linear_transformation_b_at_x1(x0, x1, y0, y1, kind) ==
    IF x1 - x0 = 0 /\ kind = "py"
    THEN [exc |-> "ZeroDivisionError", m |-> NaN, b |-> NaN]
    ELSE LET m == RatDiv(y1 - y0, x1 - x0)
             b == RatSub(RatOf(y0), RatMul(m, RatOf(x1)))
         IN  [exc |-> "none", m |-> m, b |-> b]

get_linear_transformation(x0, x1, y0, y1, kind) ==
    IF x1 - x0 = 0 /\ kind = "py"
    THEN [exc |-> "ZeroDivisionError", m |-> NaN, b |-> NaN]
    ELSE LET m == RatDiv(y1 - y0, x1 - x0)
             b == RatSub(RatOf(y0), RatMul(m, RatOf(x0)))
         IN  [exc |-> "none", m |-> m, b |-> b]

\* The returned lambda x: m*x + b.
Apply(t, x) == RatAdd(RatMul(t.m, RatOf(x)), t.b)

\* np.argmax: the first index (0-based) attaining the maximum.
argmax(v) ==
    (CHOOSE i \in 1..Len(v) :
        /\ \A j \in 1..Len(v) : v[j] <= v[i]
        /\ \A j \in 1..(i - 1) : v[j] < v[i]) - 1

\* The selection that always takes the first two peaks.
SelectedPeaks_first_two(peaks, order_max_max) ==
    SubSeq(peaks, 1, Min2(2, Len(peaks)))

\* The selection that repeats a lone peak to make a pair.
SelectedPeaks_padded(peaks, order_max_max) ==
    IF order_max_max = 0
    THEN (IF Len(peaks) = 1 THEN <<peaks[1], peaks[1]>> ELSE SubSeq(peaks, 1, 2))
    ELSE <<peaks[order_max_max], peaks[order_max_max + 1]>>

\* The selection with the brightest peak first.
SelectedPeaks_reversed(peaks, order_max_max) ==
    IF order_max_max = 0
    THEN SubSeq(peaks, 1, Min2(2, Len(peaks)))
    ELSE <<peaks[order_max_max + 1], peaks[order_max_max]>>

\* The peaks selected as anchors, before the unpacking into x0, x1.
SelectedPeaks(peaks, order_max_max) ==
    IF order_max_max = 0
    THEN SubSeq(peaks, 1, Min2(2, Len(peaks)))
    ELSE <<peaks[order_max_max], peaks[order_max_max + 1]>>

\* The binding that ignores which peak is the brightest.
SelectedLines_one_pair(order_max_max) == <<He_588_87, He_669_07>>

\* The wavelengths bound to the anchors.
SelectedLines(order_max_max) ==
    IF order_max_max = 0
    THEN <<He_588_87, He_669_07>>
    ELSE <<He_502_60, He_588_87>>

\* The shift applied to the first selected peak only.
Shifted_first_only(sel, off) ==
    [i \in 1..Len(sel) |-> IF i = 1 THEN sel[i] + off ELSE sel[i]]

\* peaks[0][...] + offset
Shifted(sel, off) == [i \in 1..Len(sel) |-> sel[i] + off]

\* A pixel axis that starts at 1.
arange_from_one(n) == [i \in 1..n |-> i]

\* np.arange(n): the pixel indices 0..n-1.
arange(n) == [i \in 1..n |-> i - 1]

NoCal(peaks, line) ==
    [exc |-> "ValueError", line |-> line, peaks |-> peaks, k |-> -1,
     x0 |-> 0, x1 |-> 0, y0 |-> 0, y1 |-> 0, m |-> NaN, b |-> NaN,
     wavelengths |-> <<>>]

get_wavelength_from_He(He, off, order) ==
    LET intensity == get_column_intensity(He)
        peaks == find_peaks(intensity, order)
        peak_vals == [i \in 1..Len(peaks) |-> At(intensity, peaks[i])]
    IN  IF Len(peak_vals) = 0 THEN NoCal(peaks, 119)
        ELSE
        LET order_max_max == argmax(peak_vals)
            xs == Shifted(SelectedPeaks(peaks, order_max_max), off)
            ys == SelectedLines(order_max_max)
        IN  IF Len(xs) # 2 THEN NoCal(peaks, 121)
            ELSE
            LET t == get_linear_transformation(xs[1], xs[2], ys[1], ys[2], "np")
            IN  [exc |-> "none", line |-> 128, peaks |-> peaks, k |-> order_max_max,
                 x0 |-> xs[1], x1 |-> xs[2], y0 |-> ys[1], y1 |-> ys[2],
                 m |-> t.m, b |-> t.b,
                 wavelengths |->
                    [i \in 1..Len(arange(Len(intensity))) |->
                        Apply(t, arange(Len(intensity))[i])]]

\* ------------------------------------------------- spectrum assembler
\* The values of the plot argument: the two booleans, the two mode strings,
\* and values outside the recognised set (another string, the integer 1,
\* which is not the object True, and None).
PlotValues == {"False", "True", "above", "over", "below", "int_1", "None"}

\* The rendering collaborator: its line plot of intensity against wavelength
\* raises ValueError when the two sequences differ in length.
scatter_wavelengths(wavelengths, intensity) ==
    IF Len(wavelengths) # Len(intensity) THEN "ValueError" ELSE "none"

Raised(exc, line) ==
    [exc |-> exc, line |-> line, n |-> 0, wavelengths |-> <<>>,
     intensity |-> <<>>, fig |-> FALSE]

Rendered(wavelengths, intensity, line) ==
    IF scatter_wavelengths(wavelengths, intensity) # "none"
    THEN Raised(scatter_wavelengths(wavelengths, intensity), line)
    ELSE [exc |-> "none", line |-> line + 1, n |-> 4, wavelengths |-> wavelengths,
          intensity |-> intensity, fig |-> TRUE]

\* The dispatch with plot compared to True by value: the integer 1 equals it.
PlotBranch_by_value(p) ==
    IF p = "False" THEN "pair"
    ELSE IF p = "above" \/ p = "True" \/ p = "int_1" THEN "above"
    ELSE IF p = "over" THEN "over"
    ELSE "raise"

\* The branch of get_spectrum taken for a value of plot.
PlotBranch(p) ==
    IF p = "False" THEN "pair"
    ELSE IF p = "above" \/ p = "True" THEN "above"
    ELSE IF p = "over" THEN "over"
    ELSE "raise"

get_spectrum(f, He, p, spectrum_offset, order) ==
    LET c == get_wavelength_from_He(He, spectrum_offset, order)
    IN  IF c.exc # "none" THEN Raised(c.exc, 139)
        ELSE
        LET wavelengths == c.wavelengths
            intensity == get_column_intensity(f)
            branch == PlotBranch(p)
        IN  IF branch = "pair"
            THEN [exc |-> "none", line |-> 142, n |-> 2, wavelengths |-> wavelengths,
                  intensity |-> intensity, fig |-> FALSE]
            ELSE IF branch = "above" THEN Rendered(wavelengths, intensity, 153)
            ELSE IF branch = "over" THEN Rendered(wavelengths, intensity, 161)
            ELSE Raised("ValueError", 165)

\* ------------------------------------------------------------ the calls
Offsets == (-MaxOffset)..MaxOffset

Anchors == (-MaxAnchor)..MaxAnchor

Lines == {He_502_60, He_588_87, He_669_07}

CalibrationProfiles == Profiles \cup {ExampleProfile}

\* The calibration images get_spectrum is called with: those whose lit
\* columns are far enough apart to be peaks of their own.
SpectrumProfiles ==
    { x \in Profiles : \A i \in 0..(Width - 1) : At(x, i) # 0 => i \in {1, 21, 41} }

NoLin ==
    [x0 |-> 0, x1 |-> 0, y0 |-> 0, y1 |-> 0, kind |-> "py", exc |-> "none",
     m |-> NaN, b |-> NaN, v0 |-> NaN, v1 |-> NaN]

Init ==
    /\ He_file = <<>>
    /\ file = <<>>
    /\ op = "idle"
    /\ offset = 0
    /\ plot = "False"
    /\ cal = [NoCal(<<>>, 0) EXCEPT !.exc = "none"]
    /\ out = Raised("none", 0)
    /\ lin = NoLin

\* A call get_wavelength_from_He(He_file, offset).
GetWavelengthFromHe ==
    /\ op = "idle"
    /\ \E He \in CalibrationProfiles, d \in Offsets :
         \E order \in Argsorts(Priority(get_column_intensity(He))) :
            /\ He_file' = He
            /\ offset' = d
            /\ cal' = get_wavelength_from_He(He, d, order)
    /\ op' = "get_wavelength_from_He"
    /\ UNCHANGED <<file, plot, out, lin>>

\* A call get_spectrum(file, He_file, plot, spectrum_offset).
GetSpectrum ==
    /\ op = "idle"
    /\ \E f \in TargetProfiles, He \in SpectrumProfiles, p \in PlotValues,
          d \in {0, MaxOffset} :
         \E order \in Argsorts(Priority(get_column_intensity(He))) :
            /\ file' = f
            /\ He_file' = He
            /\ plot' = p
            /\ offset' = d
            /\ cal' = get_wavelength_from_He(He, d, order)
            /\ out' = get_spectrum(f, He, p, d, order)
    /\ op' = "get_spectrum"
    /\ UNCHANGED lin

\* A call get_linear_transformation(x0, x1, y0, y1), and the returned
\* function applied to the two anchors.
GetLinearTransformation ==
    /\ op = "idle"
    /\ \E x0 \in Anchors, x1 \in Anchors, y0 \in Lines, y1 \in Lines,
          kind \in {"py", "np"} :
         LET t == get_linear_transformation(x0, x1, y0, y1, kind)
         IN  lin' = [x0 |-> x0, x1 |-> x1, y0 |-> y0, y1 |-> y1, kind |-> kind,
                     exc |-> t.exc, m |-> t.m, b |-> t.b,
                     v0 |-> IF t.exc = "none" THEN Apply(t, x0) ELSE NaN,
                     v1 |-> IF t.exc = "none" THEN Apply(t, x1) ELSE NaN]
    /\ op' = "get_linear_transformation"
    /\ UNCHANGED <<He_file, file, offset, plot, cal, out>>

Next ==
    \/ GetWavelengthFromHe
    \/ GetSpectrum
    \/ GetLinearTransformation

Spec == Init /\ [][Next]_vars

\* =============================================================== claims
\* A calibration has run: directly, or inside get_spectrum.
Calibrated == op \in {"get_wavelength_from_He", "get_spectrum"}

\* The elements of a sequence.
Range(q) == { q[i] : i \in DOMAIN q }

\* The line through (x0, y0) and (x1, y1), at pixel x.
LineAt(x0, x1, y0, y1, x) == RatAdd(RatOf(y0), RatDiv((y1 - y0) * (x - x0), x1 - x0))

\* The first position (1-based) of peaks whose intensity is the largest.
Brightest(x, peaks) ==
    CHOOSE i \in 1..Len(peaks) :
        /\ \A j \in 1..Len(peaks) : At(x, peaks[j]) <= At(x, peaks[i])
        /\ \A j \in 1..(i - 1) : At(x, peaks[j]) < At(x, peaks[i])

\* C1: with at least two detected peaks and k the first index of the brightest
\* one, the anchors are peaks[0], peaks[1] bound to (588.87, 669.07) when
\* k = 0 and peaks[k-1], peaks[k] bound to (502.60, 588.87) when k > 0, each
\* shifted by the offset, and the fitted line passes through them.
C1_BranchSelection ==
    (Calibrated /\ Len(cal.peaks) >= 2) =>
        LET P == cal.peaks
            k == Brightest(He_file, P) - 1
        IN  /\ cal.exc = "none"
            /\ cal.k = k
            /\ k = 0 => /\ <<cal.x0, cal.x1>> = <<P[1] + offset, P[2] + offset>>
                        /\ <<cal.y0, cal.y1>> = <<58887, 66907>>
            /\ k > 0 => /\ <<cal.x0, cal.x1>> = <<P[k] + offset, P[k + 1] + offset>>
                        /\ <<cal.y0, cal.y1>> = <<50260, 58887>>
            /\ \A i \in 0..(Len(He_file) - 1) :
                 RatEq(cal.wavelengths[i + 1], LineAt(cal.x0, cal.x1, cal.y0, cal.y1, i))

C1_Witness ==
    /\ op = "get_wavelength_from_He"
    /\ Len(cal.peaks) = 3
    /\ cal.k = 2
    /\ offset # 0
    /\ cal.exc = "none"

C3_ExampleAsStated ==
    (op = "get_wavelength_from_He" /\ He_file = ExampleProfile /\ offset = 0) =>
        /\ cal.exc = "none"
        /\ RatEq(cal.wavelengths[101], RatOf(58887))
        /\ RatEq(cal.wavelengths[301], RatOf(66907))

\* C3 amended: the brightest peak is the second one, so the two peaks are
\* bound to (502.60, 588.87): the transform maps 100 to 502.60 and 300 to
\* 588.87.
C3_Example ==
    (op = "get_wavelength_from_He" /\ He_file = ExampleProfile /\ offset = 0) =>
        /\ cal.exc = "none"
        /\ cal.peaks = <<100, 300>>
        /\ RatEq(cal.wavelengths[101], RatOf(50260))
        /\ RatEq(cal.wavelengths[301], RatOf(58887))

C3_Witness ==
    /\ op = "get_wavelength_from_He"
    /\ He_file = ExampleProfile
    /\ offset = 0
    /\ cal.exc = "none"
    /\ Len(cal.wavelengths) = ExampleWidth

\* C4: for x0 # x1 the function returned by get_linear_transformation maps x0
\* to y0 and x1 to y1.
C4_RoundTrip ==
    (op = "get_linear_transformation" /\ lin.x0 # lin.x1) =>
        /\ lin.exc = "none"
        /\ RatEq(lin.v0, RatOf(lin.y0))
        /\ RatEq(lin.v1, RatOf(lin.y1))

C4_Witness ==
    /\ op = "get_linear_transformation"
    /\ lin.x0 > lin.x1
    /\ lin.x1 # 0
    /\ lin.y0 # lin.y1
    /\ lin.exc = "none"

\* C5: the fit with offset d has the slope of the fit with offset 0 and its
\* intercept less m*d; the offset is added to both anchors, does not change
\* the peaks or the branch, and is not added to the pixel axis.
C5_OffsetApplication ==
    (Calibrated /\ cal.exc = "none") =>
        \E order \in Argsorts(Priority(He_file)) :
            LET c0 == get_wavelength_from_He(He_file, 0, order)
            IN  /\ c0.exc = "none"
                /\ c0.peaks = cal.peaks
                /\ c0.k = cal.k
                /\ <<cal.y0, cal.y1>> = <<c0.y0, c0.y1>>
                /\ <<cal.x0, cal.x1>> = <<c0.x0 + offset, c0.x1 + offset>>
                /\ RatEq(cal.m, c0.m)
                /\ RatEq(cal.b, RatSub(c0.b, RatMul(c0.m, RatOf(offset))))
                /\ \A i \in 0..(Len(He_file) - 1) :
                     RatEq(cal.wavelengths[i + 1],
                           RatAdd(RatMul(cal.m, RatOf(i)), cal.b))

C5_Witness ==
    /\ op = "get_wavelength_from_He"
    /\ cal.exc = "none"
    /\ offset < 0
    /\ cal.k > 0

\* C6: a plot value outside {False, True, 'above', 'over'} ends the call in a
\* ValueError with nothing returned (raised by the mode dispatch itself when
\* the calibration succeeded); a call that returns returns the pair
\* (wavelengths, intensity) for False and the same two followed by the figure
\* and its axes for True, 'above' and 'over'; and a valid mode does return
\* when the calibration succeeded and the plot could be drawn.
C6_PlotValidation ==
    op = "get_spectrum" =>
        /\ plot \notin {"False", "True", "above", "over"} =>
              /\ out.exc = "ValueError"
              /\ out.n = 0
              /\ cal.exc = "none" => out.line = 165
        /\ out.exc = "none" =>
              /\ plot \in {"False", "True", "above", "over"}
              /\ out.wavelengths = cal.wavelengths
              /\ out.intensity = file
              /\ plot = "False" => (out.n = 2 /\ ~out.fig)
              /\ plot \in {"True", "above", "over"} => (out.n = 4 /\ out.fig)
        /\ (cal.exc = "none" /\ plot = "False") => out.exc = "none"
        /\ (cal.exc = "none" /\ plot \in {"True", "above", "over"}
                /\ Len(file) = Len(He_file)) => out.exc = "none"

C6_Witness ==
    /\ op = "get_spectrum"
    /\ plot = "int_1"
    /\ cal.exc = "none"
    /\ out.exc = "ValueError"
    /\ out.line = 165

\* C7: with fewer than two detected peaks get_wavelength_from_He ends in an
\* error and returns no wavelengths, for every offset; a transform is only
\* ever fitted from two peaks.
C7_InsufficientPeaks ==
    Calibrated =>
        /\ Len(cal.peaks) < 2 => (cal.exc # "none" /\ cal.wavelengths = <<>>)
        /\ cal.exc = "none" => (Len(cal.peaks) >= 2 /\ cal.x0 # cal.x1)

C7_Witness ==
    /\ op = "get_wavelength_from_He"
    /\ Len(cal.peaks) = 1
    /\ offset # 0
    /\ cal.exc = "ValueError"

\* C8: with identical anchor positions get_linear_transformation ends in a
\* division-by-zero error and returns no transform of inf or NaN values.
C8_DegenerateRaises ==
    (op = "get_linear_transformation" /\ lin.x0 = lin.x1) =>
        /\ lin.exc = "ZeroDivisionError"
        /\ ~(lin.exc = "none" /\ (~IsFinite(lin.m) \/ ~IsFinite(lin.v0)))

\* The detected peaks and the candidates they were chosen from.
Detected == Range(cal.peaks)

Candidates == Range(local_maxima_1d(He_file))

\* What C9 states of every detector: ascending, prominent, spaced.
C9_Thresholds ==
    /\ \A i, j \in 1..Len(cal.peaks) : i < j => cal.peaks[i] < cal.peaks[j]
    /\ \A p \in Detected : peak_prominence(He_file, p) >= 10
    /\ \A p, q \in Detected : p # q => Abs(p - q) >= 20

\* C9 as stated: the peaks are ascending, of prominence at least 10 and at
\* least 20 pixels apart; of two candidates closer than 20 pixels the more
\* prominent is the one kept; and every candidate that meets both thresholds
\* is returned.
C9_ByProminence ==
    Calibrated =>
        /\ C9_Thresholds
        /\ \A p, q \in Candidates :
             (Abs(p - q) < 20 /\ peak_prominence(He_file, p) > peak_prominence(He_file, q))
                => q \notin Detected
        /\ \A p \in Candidates :
             ( /\ peak_prominence(He_file, p) >= 10
               /\ \A q \in Candidates \ {p} :
                    peak_prominence(He_file, q) >= 10 => Abs(p - q) >= 20 )
                => p \in Detected

\* C9 amended: the peaks are ascending, of prominence at least 10 and at least
\* 20 pixels apart; candidates closer than 20 pixels are resolved by height,
\* not prominence, and before the prominence threshold: the peaks are exactly
\* those of prominence at least 10 among a set D of candidates, any two of
\* them at least 20 pixels apart, such that every candidate outside D is
\* closer than 20 pixels to a member of D at least as high.
C9_ByHeight ==
    Calibrated =>
        /\ C9_Thresholds
        /\ \E D \in SUBSET Candidates :
             /\ \A p, q \in D : p # q => Abs(p - q) >= 20
             /\ \A q \in Candidates \ D :
                  \E p \in D : Abs(p - q) < 20 /\ At(He_file, p) >= At(He_file, q)
             /\ Detected = { p \in D : peak_prominence(He_file, p) >= 10 }

\* A higher candidate kept, a more prominent one next to it dropped.
C9_Witness ==
    /\ op = "get_wavelength_from_He"
    /\ \E p \in Detected : \E q \in Candidates \ Detected :
         /\ Abs(p - q) < 20
         /\ At(He_file, p) > At(He_file, q)
         /\ peak_prominence(He_file, q) > peak_prominence(He_file, p)

\* C10: when the calibration succeeds the slope is positive and the
\* wavelengths increase strictly with the pixel index, for every offset: the
\* anchors are two distinct peaks in ascending order bound to ascending
\* wavelengths.
C10_Increasing ==
    (Calibrated /\ cal.exc = "none") =>
        /\ cal.x0 < cal.x1
        /\ cal.y0 < cal.y1
        /\ RatLt(RatOf(0), cal.m)
        /\ \A i \in 1..(Len(cal.wavelengths) - 1) :
             RatLt(cal.wavelengths[i], cal.wavelengths[i + 1])

C10_Witness ==
    /\ op = "get_wavelength_from_He"
    /\ cal.exc = "none"
    /\ cal.k = 0
    /\ offset > 0
    /\ Len(cal.wavelengths) = Width

====
